---- MODULE Spec2Model ----
(***************************************************************************)
(* Verification model of the RAG domains backend:                          *)
(*   backend/app/services/index_manager.py  (IndexManager)                 *)
(*   backend/app/routers/domains.py         (HTTP handlers, multi-query)   *)
(*                                                                         *)
(* The specifications of the module:                                       *)
(*   SpecExtract  the pure function _extract_text_from_pdf                 *)
(*   Spec         the IndexManager under concurrent requests; SpecSeq is   *)
(*                the same machine with one request at a time, SpecWriters *)
(*                the concurrent machine with the writing requests only,   *)
(*                SpecReaders the machine with concurrent reads and one    *)
(*                writing request at a time                                *)
(*   SpecMulti    the multi-domain query handler                           *)
(*   SpecSingle   the single-domain query handler                          *)
(*   SpecQuery    both query handlers, their event streams read to the end *)
(***************************************************************************)
EXTENDS Integers, Sequences, FiniteSets, TLC

\* ------------------------------------------------------------------ bounds
\* Largest page count of a PDF given to the extraction function alone.
MaxPages == 21
\* Requests started in one behaviour of Spec / SpecSeq.
MaxOps == 3
\* Files in one upload request.
MaxBatch == 2
\* Length of the domain list of a multi-domain query.
MaxDomains == 3
\* Tokens of a streamed answer.
MaxTokens == 2

\* --------------------------------------------------------------- utilities
Max(a, b) == IF a >= b THEN a ELSE b

Range(s) == {s[i] : i \in DOMAIN s}

RECURSIVE Flatten(_)
Flatten(ss) == IF ss = <<>> THEN <<>> ELSE Head(ss) \o Flatten(Tail(ss))

\* ------------------------------------------------------------ PDF documents
\* A PDF file is modelled by what the two extraction back ends see in it:
\*   n       the number of pages (pages are numbered 0..n-1)
\*   text    the pages whose page.extract_text().strip() is non-empty
\*   ocr     the pages whose pytesseract.image_to_string(img).strip() is non-empty
\*   corrupt pypdf.PdfReader raises on the file
\*   ver     the version of the content (two files with the same page sets and
\*           different versions have different page texts); in version "long"
\*           the text of a page is longer than Settings.chunk_size
\* The state of the OCR stack of the process:
\*   "available" fitz, pytesseract and PIL import and work
\*   "missing"   one of the imports raises ImportError
\*   "failing"   the imports succeed and the OCR call raises (e.g. no tesseract binary)
OcrModes == {"available", "missing", "failing"}

Pages(pdf) == 0 .. (pdf.n - 1)

\* The (page_num, text) tuples of the pages in `keep`, in page order.
PageTuples(pdf, keep, src) ==
    LET all == [k \in 1 .. pdf.n |-> <<k - 1, [src |-> src, ver |-> pdf.ver]>>]
    IN  SelectSeq(all, LAMBDA p : p[1] \in keep)

\* len(pages) < max(1, len(reader.pages) * 0.1), scaled by ten to stay in the
\* integers; for every page count below 100000 the double product n * 0.1
\* compares with an integer exactly as the rational n / 10 does.
OcrThresholdLe(len, n) == 10 * len <= Max(10, n)
OcrThreshold(len, n) == 10 * len < Max(10, n)

\* _extract_text_from_pdf: the returned list, whether it raised, and what the
\* OCR stack was asked to do (ocr: the OCR branch ran past its imports;
\* ocrCalls: the pages handed to image_to_string).
ExtractTextFromPdf(pdf, deps) ==
    IF pdf.corrupt
    THEN [raised |-> TRUE, pages |-> <<>>, ocr |-> FALSE, ocrCalls |-> {}]
    ELSE LET pages == PageTuples(pdf, pdf.text, "text") IN
         IF OcrThreshold(Len(pages), pdf.n)
         THEN CASE deps = "missing" ->
                     [raised |-> FALSE, pages |-> pages, ocr |-> FALSE, ocrCalls |-> {}]
                [] deps = "failing" /\ pdf.n > 0 ->
                     [raised |-> TRUE, pages |-> <<>>, ocr |-> TRUE, ocrCalls |-> {0}]
                [] OTHER ->
                     [raised |-> FALSE, pages |-> PageTuples(pdf, pdf.ocr, "ocr"),
                      ocr |-> TRUE, ocrCalls |-> Pages(pdf)]
         ELSE [raised |-> FALSE, pages |-> pages, ocr |-> FALSE, ocrCalls |-> {}]

\* ------------------------------------------------------- the manager's world
Domains == {"d"}

\* File names, split at "::" (<<"x">> is "x", <<"x", "y">> is "x::y"): the
\* document ids of the index are "::"-joined strings, and the code takes them
\* apart again at "::".
FileNames == {<<"x">>, <<"x", "y">>}

Threads == {"t1", "t2"}

\* The PDFs that requests upload.
TwoPages == [n |-> 2, text |-> {0, 1}, ocr |-> {}, corrupt |-> FALSE, ver |-> "v1"]
OnePage  == [n |-> 2, text |-> {0}, ocr |-> {}, corrupt |-> FALSE, ver |-> "v1"]
Corrupt  == [n |-> 0, text |-> {}, ocr |-> {}, corrupt |-> TRUE, ver |-> "v1"]
Dense == [n |-> 1, text |-> {0}, ocr |-> {}, corrupt |-> FALSE, ver |-> "long"]
PdfPool  == {TwoPages, OnePage, Corrupt, Dense}

\* An uploaded file: its name, its content, and whether upload_pdfs takes it for
\* a PDF (its name ends in ".pdf" or its content type is application/pdf).
\* The file that is refused is a copy of TwoPages sent as "x" with neither.
Uploads ==
    {[fn |-> f, pdf |-> p, accepted |-> TRUE] : f \in FileNames, p \in PdfPool}
    \cup {[fn |-> <<"x">>, pdf |-> TwoPages, accepted |-> FALSE]}

\* The file lists of an upload request: distinct file names, at most MaxBatch.
Batches ==
    {b \in UNION {[1 .. k -> Uploads] : k \in 1 .. MaxBatch} :
        \A i, j \in DOMAIN b : i # j => b[i].fn # b[j].fn}

VARIABLES
    ex,         \* SpecExtract: the call of _extract_text_from_pdf
    disk,       \* per domain: data_dir/<name>/ (dir) with meta.json, index/ and
                \* pdfs/ (pdfdir: the directory, pdfs: its files)
    instances,  \* IndexManager._instances: domain -> handle (0: no entry)
    heap,       \* the VectorStoreIndex objects ever built: handle -> ref_doc_info
    ocrDeps,    \* the OCR stack of the process
    th,         \* per request slot: where the request is and its locals
    ops,        \* requests started so far
    last,       \* history: the request answered last, and the domain as it left it
    menv,       \* SpecMulti: the domains that exist and what each one retrieves
    mq          \* SpecMulti: one multi-domain query request

vars == <<ex, disk, instances, heap, ocrDeps, th, ops, last, menv, mq>>

\* ---------------------------------------------------------------- the disk
NoDocs == [id \in {} |-> [file |-> <<>>, src |-> "", ver |-> "", tag |-> ""]]

EmptyDir == [dir |-> FALSE, pdfdir |-> FALSE,
             meta |-> [exists |-> FALSE, name |-> "", doc_count |-> 0],
             index |-> [exists |-> FALSE, docs |-> NoDocs],
             pdfs |-> [f \in {} |-> Corrupt]]

\* domain_exists: meta.json is there.
NeverExists(name) == FALSE
AlwaysExists(name) == TRUE
domain_exists(name) == disk[name].meta.exists

\* _write_meta with the given doc_count; the caller has checked that the domain
\* directory exists (open() of a file in a missing directory raises). The
\* record carries the name given to create_domain (101), which the later
\* writers read back and keep (199-201, 359-361).
WriteMeta(name, count) ==
    [disk EXCEPT ![name].meta = [exists |-> TRUE, name |-> name, doc_count |-> count]]

\* index.storage_context.persist(persist_dir): the stores are written under
\* index/, which the library creates (with its parents) when it is missing.
Persist(name, docs) ==
    [disk EXCEPT ![name].dir = TRUE,
                 ![name].index = [exists |-> TRUE, docs |-> docs]]

\* -------------------------------------------------------------- the index
PageTok(i) == <<"p0", "p1", "p2", "p3">>[i + 1]

\* doc_id = f"{name}::{pdf_path.name}::p{page_num}", as its "::"-separated parts.
DocId(name, fn, page) == <<name>> \o fn \o <<PageTok(page)>>

IsPrefix(p, s) == Len(p) <= Len(s) /\ SubSeq(s, 1, Len(p)) = p

\* The Document objects built from the extracted pages of one file (179-190);
\* tag is the "_domain" entry of the metadata, which a Document is built
\* without ("": no such entry).
Documents(name, fn, pages) ==
    [k \in DOMAIN pages |->
        [id |-> DocId(name, fn, pages[k][1]),
         val |-> [file |-> fn, src |-> pages[k][2].src, ver |-> pages[k][2].ver,
                  tag |-> ""]]]

\* index.refresh_ref_docs(documents): insert the new ids, replace the ids
\* whose hash changed, leave the rest of the index alone. (ReplaceFileDocs: a
\* refresh that first drops what the index holds of the files of the documents.)
ReplaceFileDocs(docs, documents) ==
    LET ids == {documents[k].id : k \in DOMAIN documents}
        files == {documents[k].val.file : k \in DOMAIN documents}
        kept == {id \in DOMAIN docs : docs[id].file \notin files}
        new(id) == (CHOOSE k \in DOMAIN documents : documents[k].id = id)
    IN  [id \in kept \cup ids |->
            IF id \in ids THEN documents[new(id)].val ELSE docs[id]]
RefreshRefDocs(docs, documents) ==
    LET ids == {documents[k].id : k \in DOMAIN documents}
        new(id) == (CHOOSE k \in DOMAIN documents : documents[k].id = id)
    IN  [id \in DOMAIN docs \cup ids |->
            IF id \in ids THEN documents[new(id)].val ELSE docs[id]]

\* The doc_ids _delete_document_sync collects for a file name.
ToDelete(docs, name, fn) ==
    {id \in DOMAIN docs :
        \/ id = <<name>> \o fn
        \/ (IsPrefix(<<name>> \o fn, id) /\ Len(id) > Len(fn) + 1)}

\* index.delete_ref_doc for each collected id.
DeleteRefDocs(docs, ids) == [id \in DOMAIN docs \ ids |-> docs[id]]

\* ------------------------------------------------------------ request slots
NoResult == [kind |-> "none", val |-> 0, nodes |-> {}]

IdleSlot == [pc |-> "idle", op |-> "none", name |-> "", files |-> <<>>, fn |-> <<>>,
             index |-> 0, i |-> 0, new_count |-> 0, mut |-> FALSE, dc |-> 0,
             result |-> NoResult]

\* The slot, moved to another place of its code.
Goto(t, pc) == [th EXCEPT ![t].pc = pc]

\* A slot at the end of its request: it returned, or raised what the HTTP
\* layer reports.
Ended(slot, kind, val, nodes) ==
    [slot EXCEPT !.pc = "done",
                 !.result = [kind |-> kind, val |-> val, nodes |-> nodes]]

Finish(t, kind, val, nodes) == [th EXCEPT ![t] = Ended(th[t], kind, val, nodes)]

NewSlot(op, name) == [IdleSlot EXCEPT !.op = op, !.name = name]

\* Where a request goes once _get_or_load_index_sync has returned its index.
Body(op) ==
    CASE op = "upload" -> "ing_doc"
      [] op = "delete_document" -> "del_apply"
      [] op = "list_documents" -> "list"
      [] OTHER -> "ret"

\* A request arrives, in a free slot. Its first lines run on the event loop up
\* to the first await: the domain_exists check of the handler and of the
\* manager's public method.
Begin(t) ==
    /\ th[t].pc = "idle"
    /\ ops < MaxOps
    /\ ops' = ops + 1
    /\ UNCHANGED <<ex, instances, heap, ocrDeps, last, menv, mq>>

\* create_domain (index_manager.py 371-374).
StartCreate(t, name) ==
    /\ Begin(t)
    /\ th' = [th EXCEPT ![t] =
                IF domain_exists(name)
                THEN Ended(NewSlot("create", name), "AlreadyExists", 0, {})
                ELSE [NewSlot("create", name) EXCEPT !.pc = "c_new"]]
    /\ UNCHANGED disk

\* _create_empty_index_sync 89-96: the directories, a new empty index, persisted.
CreateNew(t) ==
    /\ th[t].pc = "c_new"
    /\ heap' = Append(heap, NoDocs)
    /\ disk' = [Persist(th[t].name, NoDocs) EXCEPT ![th[t].name].pdfdir = TRUE]
    /\ th' = [th EXCEPT ![t].pc = "c_cache", ![t].index = Len(heap) + 1]
    /\ UNCHANGED <<ex, instances, ocrDeps, ops, last, menv, mq>>

\* _create_empty_index_sync 98.
CreateCache(t) ==
    /\ th[t].pc = "c_cache"
    /\ instances' = [instances EXCEPT ![th[t].name] = th[t].index]
    /\ th' = Goto(t, "c_meta")
    /\ UNCHANGED <<ex, disk, heap, ocrDeps, ops, last, menv, mq>>

\* _create_empty_index_sync 99-107.
CreateMeta(t) ==
    /\ th[t].pc = "c_meta"
    /\ IF disk[th[t].name].dir
       THEN /\ disk' = WriteMeta(th[t].name, 0)
            /\ th' = Finish(t, "ok", 0, {})
       ELSE /\ th' = Finish(t, "error", 0, {})
            /\ UNCHANGED disk
    /\ UNCHANGED <<ex, instances, heap, ocrDeps, ops, last, menv, mq>>

\* get_domain (387-390): no await, the record of meta.json is returned at once.
StartGet(t, name) ==
    /\ Begin(t)
    /\ th' = [th EXCEPT ![t] =
                IF domain_exists(name)
                THEN Ended(NewSlot("get", name), "ok", 0,
                           {[name |-> disk[name].meta.name,
                             doc_count |-> disk[name].meta.doc_count]})
                ELSE Ended(NewSlot("get", name), "NotFound", 0, {})]
    /\ UNCHANGED disk

\* delete_domain (392-395).
StartDeleteDomain(t, name) ==
    /\ Begin(t)
    /\ th' = [th EXCEPT ![t] =
                IF domain_exists(name)
                THEN [NewSlot("delete_domain", name) EXCEPT !.pc = "dd_pop"]
                ELSE Ended(NewSlot("delete_domain", name), "NotFound", 0, {})]
    /\ UNCHANGED disk

\* _delete_domain_sync 364.
DeleteDomainPop(t) ==
    /\ th[t].pc = "dd_pop"
    /\ instances' = [instances EXCEPT ![th[t].name] = 0]
    /\ th' = Goto(t, "dd_rm")
    /\ UNCHANGED <<ex, disk, heap, ocrDeps, ops, last, menv, mq>>

\* _delete_domain_sync 365-367.
DeleteDomainRmtree(t) ==
    /\ th[t].pc = "dd_rm"
    /\ disk' = [disk EXCEPT ![th[t].name] = EmptyDir]
    /\ th' = Finish(t, "ok", 0, {})
    /\ UNCHANGED <<ex, instances, heap, ocrDeps, ops, last, menv, mq>>

\* _get_or_load_index_sync 119-122: the cache, then domain_exists.
GetOrLoad(t) ==
    /\ th[t].pc = "gol"
    /\ th' = IF instances[th[t].name] # 0
             THEN [th EXCEPT ![t].pc = Body(th[t].op),
                             ![t].index = instances[th[t].name]]
             ELSE IF domain_exists(th[t].name)
                  THEN Goto(t, "load")
                  ELSE Finish(t, "NotFound", 0, {})
    /\ UNCHANGED <<ex, disk, instances, heap, ocrDeps, ops, last, menv, mq>>

\* _load_index_sync 109-116: a new index object read from index/; the load
\* raises when nothing is persisted there.
LoadIndex(t) ==
    /\ th[t].pc = "load"
    /\ IF disk[th[t].name].index.exists
       THEN /\ heap' = Append(heap, disk[th[t].name].index.docs)
            /\ th' = [th EXCEPT ![t].pc = "store", ![t].index = Len(heap) + 1]
       ELSE /\ th' = Finish(t, "error", 0, {})
            /\ UNCHANGED heap
    /\ UNCHANGED <<ex, disk, instances, ocrDeps, ops, last, menv, mq>>

\* _get_or_load_index_sync 124-125.
StoreIndex(t) ==
    /\ th[t].pc = "store"
    /\ instances' = [instances EXCEPT ![th[t].name] = th[t].index]
    /\ th' = Goto(t, Body(th[t].op))
    /\ UNCHANGED <<ex, disk, heap, ocrDeps, ops, last, menv, mq>>

\* upload_pdfs (domains.py 94-101): the existence check and the mkdir of pdfs/.
StartUpload(t, name, files) ==
    /\ Begin(t)
    /\ IF domain_exists(name)
       THEN /\ th' = [th EXCEPT ![t] = [NewSlot("upload", name) EXCEPT
                                           !.pc = "up_file", !.files = files, !.i = 1]]
            /\ disk' = [disk EXCEPT ![name].dir = TRUE, ![name].pdfdir = TRUE]
       ELSE /\ th' = [th EXCEPT ![t] =
                        Ended([NewSlot("upload", name) EXCEPT !.files = files],
                              "NotFound", 0, {})]
            /\ UNCHANGED disk

\* upload_pdfs 103-119, one pass of the loop: the file is checked (400 when it
\* is not a PDF) and written under pdfs/ (the open raises when the directory is
\* gone, and nothing catches that).
UploadFile(t) ==
    /\ th[t].pc = "up_file"
    /\ LET name == th[t].name
           f == th[t].files[th[t].i]
       IN  IF ~f.accepted
           THEN /\ th' = Finish(t, "NotPdf", 0, {})
                /\ UNCHANGED disk
           ELSE IF disk[name].pdfdir
           THEN /\ disk' = [disk EXCEPT ![name].pdfs =
                              [g \in DOMAIN disk[name].pdfs \cup {f.fn} |->
                                  IF g = f.fn THEN f.pdf ELSE disk[name].pdfs[g]]]
                /\ th' = [th EXCEPT ![t].i = th[t].i + 1,
                                    ![t].pc = IF th[t].i = Len(th[t].files)
                                              THEN "up_call" ELSE "up_file"]
           ELSE /\ th' = Finish(t, "error", 0, {})
                /\ UNCHANGED disk
    /\ UNCHANGED <<ex, instances, heap, ocrDeps, ops, last, menv, mq>>

\* upload_pdfs 121-126 calling ingest_pdfs (index_manager.py 402-405).
IngestCall(t) ==
    /\ th[t].pc = "up_call"
    /\ th' = IF domain_exists(th[t].name)
             THEN [th EXCEPT ![t].pc = "gol", ![t].i = 1]
             ELSE Finish(t, "NotFound", 0, {})
    /\ UNCHANGED <<ex, disk, instances, heap, ocrDeps, ops, last, menv, mq>>

\* _ingest_pdfs_sync 171-194, one pass of the loop: the file is read and
\* extracted (an error of the reader or of the OCR stack propagates: the loop has
\* no handler), its pages become documents and the index is refreshed.
IngestDoc(t) ==
    /\ th[t].pc = "ing_doc"
    /\ LET name == th[t].name
           f == th[t].files[th[t].i]
           next == IF th[t].i = Len(th[t].files) THEN "ing_persist" ELSE "ing_doc"
       IN  IF f.fn \notin DOMAIN disk[name].pdfs
           THEN /\ th' = Finish(t, "error", 0, {})
                /\ UNCHANGED heap
           ELSE LET got == ExtractTextFromPdf(disk[name].pdfs[f.fn], ocrDeps)
                    documents == Documents(name, f.fn, got.pages)
                IN  IF got.raised
                    THEN /\ th' = Finish(t, "error", 0, {})
                         /\ UNCHANGED heap
                    ELSE IF got.pages = <<>>
                    THEN /\ th' = [th EXCEPT ![t].i = th[t].i + 1, ![t].pc = next]
                         /\ UNCHANGED heap
                    ELSE /\ heap' = [heap EXCEPT ![th[t].index] =
                                       RefreshRefDocs(heap[th[t].index], documents)]
                         /\ th' = [th EXCEPT ![t].i = th[t].i + 1, ![t].pc = next,
                                             ![t].mut = TRUE,
                                             ![t].new_count =
                                                 th[t].new_count + Len(documents)]
    /\ UNCHANGED <<ex, disk, instances, ocrDeps, ops, last, menv, mq>>

\* _ingest_pdfs_sync 196.
IngestPersist(t) ==
    /\ th[t].pc = "ing_persist"
    /\ disk' = Persist(th[t].name, heap[th[t].index])
    /\ th' = Goto(t, "ing_meta")
    /\ UNCHANGED <<ex, instances, heap, ocrDeps, ops, last, menv, mq>>

\* meta["doc_count"] = len(index.ref_doc_info) (200): the count is taken from the
\* index, whatever meta.json held and whatever this call added.
DocCountAdded(docs, old, new_count) == old + new_count
DocCount(docs, old, new_count) == Cardinality(DOMAIN docs)

\* _ingest_pdfs_sync 199-200: meta.json is read (raising when it is gone) and
\* the length of ref_doc_info is taken.
IngestMeta(t) ==
    /\ th[t].pc = "ing_meta"
    /\ th' = IF disk[th[t].name].meta.exists
             THEN [th EXCEPT ![t].pc = "ing_write",
                             ![t].dc = DocCount(heap[th[t].index],
                                                disk[th[t].name].meta.doc_count,
                                                th[t].new_count)]
             ELSE Finish(t, "error", 0, {})
    /\ UNCHANGED <<ex, disk, instances, heap, ocrDeps, ops, last, menv, mq>>

\* _ingest_pdfs_sync 201-203.
IngestWrite(t) ==
    /\ th[t].pc = "ing_write"
    /\ IF disk[th[t].name].dir
       THEN /\ disk' = WriteMeta(th[t].name, th[t].dc)
            /\ th' = Finish(t, "ok", th[t].new_count, {})
       ELSE /\ th' = Finish(t, "error", 0, {})
            /\ UNCHANGED disk
    /\ UNCHANGED <<ex, instances, heap, ocrDeps, ops, last, menv, mq>>

\* delete_document (domains.py 153-154, index_manager.py 397-400).
StartDeleteDocument(t, name, fn) ==
    /\ Begin(t)
    /\ th' = [th EXCEPT ![t] =
                IF domain_exists(name)
                THEN [NewSlot("delete_document", name) EXCEPT !.pc = "gol", !.fn = fn]
                ELSE Ended([NewSlot("delete_document", name) EXCEPT !.fn = fn],
                           "NotFound", 0, {})]
    /\ UNCHANGED disk

\* _delete_document_sync 339-349: the ids of the file are collected and removed.
DeleteApply(t) ==
    /\ th[t].pc = "del_apply"
    /\ LET docs == heap[th[t].index]
           to_delete == ToDelete(docs, th[t].name, th[t].fn)
       IN  IF to_delete = {}
           THEN /\ th' = Finish(t, "DocumentNotFound", 0, {})
                /\ UNCHANGED heap
           ELSE /\ heap' = [heap EXCEPT ![th[t].index] = DeleteRefDocs(docs, to_delete)]
                /\ th' = [th EXCEPT ![t].pc = "del_persist", ![t].mut = TRUE]
    /\ UNCHANGED <<ex, disk, instances, ocrDeps, ops, last, menv, mq>>

\* _delete_document_sync 351.
DeletePersist(t) ==
    /\ th[t].pc = "del_persist"
    /\ disk' = Persist(th[t].name, heap[th[t].index])
    /\ th' = Goto(t, "del_meta")
    /\ UNCHANGED <<ex, instances, heap, ocrDeps, ops, last, menv, mq>>

\* _delete_document_sync 354-360: the stored PDF is unlinked when it is there,
\* meta.json is read (raising when it is gone), the length of ref_doc_info taken.
DeleteMeta(t) ==
    /\ th[t].pc = "del_meta"
    /\ LET name == th[t].name
           pdfs == disk[name].pdfs
       IN  /\ disk' = [disk EXCEPT ![name].pdfs =
                          [g \in DOMAIN pdfs \ {th[t].fn} |-> pdfs[g]]]
           /\ th' = IF disk[name].meta.exists
                    THEN [th EXCEPT ![t].pc = "del_write",
                                    ![t].dc = Cardinality(DOMAIN heap[th[t].index])]
                    ELSE Finish(t, "error", 0, {})
    /\ UNCHANGED <<ex, instances, heap, ocrDeps, ops, last, menv, mq>>

\* _delete_document_sync 361.
DeleteWrite(t) ==
    /\ th[t].pc = "del_write"
    /\ IF disk[th[t].name].dir
       THEN /\ disk' = WriteMeta(th[t].name, th[t].dc)
            /\ th' = Finish(t, "ok", 0, {})
       ELSE /\ th' = Finish(t, "error", 0, {})
            /\ UNCHANGED disk
    /\ UNCHANGED <<ex, instances, heap, ocrDeps, ops, last, menv, mq>>

\* retrieve_nodes (417-421).
StartRetrieve(t, name) ==
    /\ Begin(t)
    /\ th' = [th EXCEPT ![t] =
                IF domain_exists(name)
                THEN [NewSlot("retrieve", name) EXCEPT !.pc = "gol"]
                ELSE Ended(NewSlot("retrieve", name), "NotFound", 0, {})]
    /\ UNCHANGED disk

similarity_top_k == 10

\* retriever.retrieve (267): the docstore builds a new node object from the
\* stored record of each hit, so what is returned shares nothing with the index.
GetNodes(docs, top) == {[id |-> id, meta |-> docs[id]] : id \in top}

\* _retrieve_nodes_sync 270-272: the metadata of each returned node is copied
\* and the copy gets the "_domain" entry.
TagRetrieved(name, nodes) == {[n EXCEPT !.meta.tag = name] : n \in nodes}

\* What the index holds once the retrieved nodes were tagged: the stored
\* records as they were, the assignments of 270-271 reaching the returned
\* objects only. (TaggedInPlace: the entry written to the stored records of
\* the hits, as it would be were the returned nodes those of the index.)
TaggedInPlace(docs, top, name) ==
    [id \in DOMAIN docs |-> IF id \in top THEN [docs[id] EXCEPT !.tag = name]
                                          ELSE docs[id]]
AfterTagging(docs, top, name) == docs

\* _retrieve_nodes_sync 263-272: the top similarity_top_k documents of the
\* index, tagged; the query engine of _query_sync (252-258) retrieves the same
\* nodes and tags nothing.
Retrieve(t) ==
    /\ th[t].pc = "ret"
    /\ LET docs == heap[th[t].index]
           ids == DOMAIN docs
       IN  \E top \in SUBSET ids :
              /\ Cardinality(top) = IF Cardinality(ids) < similarity_top_k
                                    THEN Cardinality(ids) ELSE similarity_top_k
              /\ IF th[t].op = "retrieve"
                 THEN /\ th' = Finish(t, "ok", 0,
                                      TagRetrieved(th[t].name, GetNodes(docs, top)))
                      /\ heap' = [heap EXCEPT ![th[t].index] =
                                     AfterTagging(docs, top, th[t].name)]
                 ELSE /\ th' = Finish(t, "ok", 0, GetNodes(docs, top))
                      /\ UNCHANGED heap
    /\ UNCHANGED <<ex, disk, instances, ocrDeps, ops, last, menv, mq>>

\* query (412-415): _query_sync gets the index as the retrieval does and
\* retrieves the same top similarity_top_k documents before it generates.
StartQuery(t, name) ==
    /\ Begin(t)
    /\ th' = [th EXCEPT ![t] =
                IF domain_exists(name)
                THEN [NewSlot("query", name) EXCEPT !.pc = "gol"]
                ELSE Ended(NewSlot("query", name), "NotFound", 0, {})]
    /\ UNCHANGED disk

\* list_documents (407-410).
StartList(t, name) ==
    /\ Begin(t)
    /\ th' = [th EXCEPT ![t] =
                IF domain_exists(name)
                THEN [NewSlot("list_documents", name) EXCEPT !.pc = "gol"]
                ELSE Ended(NewSlot("list_documents", name), "NotFound", 0, {})]
    /\ UNCHANGED disk

\* _list_documents_sync 214-219: the domain part of the doc id is stripped
\* (split at the first "::"), then the page suffix (split at the last "::").
ListFilename(id) ==
    LET without_domain == IF Len(id) > 1 THEN Tail(id) ELSE id
    IN  IF Len(without_domain) > 1
        THEN SubSeq(without_domain, 1, Len(without_domain) - 1)
        ELSE without_domain

\* len(ref_info.node_ids) (220): the nodes the page document was split into
\* when it was inserted; a text longer than Settings.chunk_size (48) gives two.
NodeIds(val) == IF val.ver = "long" THEN 2 ELSE 1

RECURSIVE SumNodeIds(_, _)
SumNodeIds(docs, ids) ==
    IF ids = {} THEN 0
    ELSE LET id == CHOOSE x \in ids : TRUE
         IN  NodeIds(docs[id]) + SumNodeIds(docs, ids \ {id})

\* _list_documents_sync 211-225: one entry per file name (the code returns them
\* sorted by name; the order is left out here).
ListDocumentsSync(docs) ==
    {[filename |-> f,
      num_chunks |-> SumNodeIds(docs, {id \in DOMAIN docs : ListFilename(id) = f})] :
        f \in {ListFilename(id) : id \in DOMAIN docs}}

ListDocuments(t) ==
    /\ th[t].pc = "list"
    /\ th' = Finish(t, "ok", 0, ListDocumentsSync(heap[th[t].index]))
    /\ UNCHANGED <<ex, disk, instances, heap, ocrDeps, ops, last, menv, mq>>

\* The chunks of a domain: those of its cached index, else of the persisted one.
Chunks(name) ==
    IF instances[name] # 0 THEN heap[instances[name]] ELSE disk[name].index.docs

NoLast == [op |-> "none", name |-> "", files |-> <<>>, kind |-> "none",
           docs |-> NoDocs, count |-> 0]

\* The response has been sent: the slot is free again.
Return(t) ==
    /\ th[t].pc = "done"
    /\ th' = [th EXCEPT ![t] = IdleSlot]
    /\ last' = [op |-> th[t].op, name |-> th[t].name, files |-> th[t].files,
                kind |-> th[t].result.kind, docs |-> Chunks(th[t].name),
                count |-> disk[th[t].name].meta.doc_count]
    /\ UNCHANGED <<ex, disk, instances, heap, ocrDeps, ops, menv, mq>>

\* ------------------------------------------------- the multi-domain query
\* The domains a multi-domain query may name.
QueryDomains == {"a", "b"}

\* A node an index returns: the id of its chunk and the chunk's metadata; tag
\* is the "_domain" entry that _retrieve_nodes_sync adds.
Node(d, f, p) == [id |-> <<d, f, p>>, file_name |-> f, domain |-> d, tag |-> ""]

\* What a domain's index ranks for the question, best first: nothing, one
\* page, or two pages of two files ("x" is a file name in every domain).
Rankings(d) ==
    {<<>>, <<Node(d, "x", "p0")>>, <<Node(d, "y", "p1"), Node(d, "x", "p0")>>}

\* _retrieve_nodes_sync 269-271: each returned node is tagged with the domain.
TagNodes(name, nodes) == [k \in DOMAIN nodes |-> [nodes[k] EXCEPT !.tag = name]]

\* _serialize_source_node (domains.py 38-52): the file_name of the metadata,
\* or without one the last "::" segment of the node id.
SerializeSourceNode(node) ==
    [doc_id |-> node.id,
     filename |-> IF node.file_name # ""
                  THEN <<node.file_name>>
                  ELSE <<node.id[Len(node.id)]>>]

NoTask == [state |-> "none", nodes |-> <<>>]

\* query_multi_domain 171-177: 400 for an empty list, 404 when a named domain
\* does not exist, 0 when the request goes on.
ValidateNoLookup(domains, exists) ==
    IF domains = <<>> THEN 400 ELSE 0
Validate(domains, exists) ==
    IF domains = <<>> THEN 400
    ELSE IF \E i \in DOMAIN domains : domains[i] \notin exists THEN 404
    ELSE 0

\* _gather_nodes 197-209: the results are walked in the order of the domain
\* list, exceptions are skipped, each node is appended with its source entry,
\* whose filename is prefixed with the domain of its position.
RECURSIVE MergeFrom(_, _, _)
MergeFrom(domains, results, todo) ==
    IF todo = <<>>
    THEN [raised |-> FALSE, merged_nodes |-> <<>>, all_sources |-> <<>>]
    ELSE LET i == Head(todo)
             rest == MergeFrom(domains, results, Tail(todo))
             nodes == IF results[i].state = "nodes" THEN results[i].nodes ELSE <<>>
         IN  [raised |-> FALSE,
              merged_nodes |-> nodes \o rest.merged_nodes,
              all_sources |->
                  [k \in DOMAIN nodes |->
                      [SerializeSourceNode(nodes[k]) EXCEPT
                          !.filename = <<domains[i], "/">> \o @]]
                  \o rest.all_sources]

\* Two merges the code does not perform: results taken in completion order;
\* an exception among the results ending the request.
MergeByCompletion(domains, results, order) ==
    MergeFrom(domains, results, order)
MergeAborting(domains, results, order) ==
    IF \E i \in DOMAIN results : results[i].state = "exc"
    THEN [raised |-> TRUE, merged_nodes |-> <<>>, all_sources |-> <<>>]
    ELSE MergeFrom(domains, results, [i \in DOMAIN domains |-> i])

MergeNodes(domains, results, order) ==
    MergeFrom(domains, results, [i \in DOMAIN domains |-> i])

\* `if not merged_nodes` (217, 241): the fixed answer, or a synthesis.
AlwaysSynthesize(merged_nodes) == TRUE
NeedsSynthesis(merged_nodes) == merged_nodes # <<>>

NoResults == "No results found across the selected domains."

MqOff == [pc |-> "off", domains |-> <<>>, streaming |-> FALSE, checked |-> {},
          launched |-> 0, results |-> <<>>, order |-> <<>>,
          merged_nodes |-> <<>>, all_sources |-> <<>>, genCalls |-> 0,
          status |-> 0, answer |-> "", sources |-> <<>>, events |-> <<>>]

MenvOff == [exists |-> {}, ranked |-> [d \in QueryDomains |-> <<>>]]

\* The request is answered with an HTTP status.
Respond(status) == [mq EXCEPT !.pc = "done", !.status = status]

\* query_multi_domain 171-177 (checked: the domains that existed at this point).
ValidateRequest ==
    /\ mq.pc = "validate"
    /\ LET v == Validate(mq.domains, menv.exists)
       IN  mq' = IF v = 0
                 THEN [mq EXCEPT !.pc = "gather", !.checked = menv.exists,
                                 !.results = [i \in DOMAIN mq.domains |-> NoTask]]
                 ELSE [Respond(v) EXCEPT !.checked = menv.exists]
    /\ UNCHANGED <<ex, disk, instances, heap, ocrDeps, th, ops, last, menv>>

\* _gather_nodes 192-195 starting the next retrieve_nodes (index_manager.py
\* 417-421): DomainNotFoundError when the domain is gone, else the retrieval
\* is handed to a thread.
LaunchRetrieval ==
    /\ mq.pc = "gather"
    /\ mq.launched < Len(mq.domains)
    /\ LET i == mq.launched + 1
       IN  mq' = IF mq.domains[i] \in menv.exists
                 THEN [mq EXCEPT !.launched = i, !.results[i].state = "running"]
                 ELSE [mq EXCEPT !.launched = i, !.results[i].state = "exc",
                                 !.order = Append(@, i)]
    /\ UNCHANGED <<ex, disk, instances, heap, ocrDeps, th, ops, last, menv>>

\* A retrieval thread ends (_retrieve_nodes_sync 262-272): with the tagged
\* nodes of its domain, or with the error of the index load or of the
\* embedding service.
CompleteRetrieval(i) ==
    /\ mq.pc = "gather"
    /\ i \in DOMAIN mq.results
    /\ mq.results[i].state = "running"
    /\ \/ mq' = [mq EXCEPT !.results[i] =
                    [state |-> "nodes",
                     nodes |-> TagNodes(mq.domains[i], menv.ranked[mq.domains[i]])],
                               !.order = Append(@, i)]
       \/ mq' = [mq EXCEPT !.results[i].state = "exc", !.order = Append(@, i)]
    /\ UNCHANGED <<ex, disk, instances, heap, ocrDeps, th, ops, last, menv>>

\* _gather_nodes 197-209, once asyncio.gather has every result.
Merge ==
    /\ mq.pc = "gather"
    /\ mq.launched = Len(mq.domains)
    /\ \A i \in DOMAIN mq.results : mq.results[i].state \in {"nodes", "exc"}
    /\ LET m == MergeNodes(mq.domains, mq.results, mq.order)
       IN  mq' = IF m.raised
                 THEN Respond(500)
                 ELSE [mq EXCEPT !.pc = "answer", !.merged_nodes = m.merged_nodes,
                                 !.all_sources = m.all_sources]
    /\ UNCHANGED <<ex, disk, instances, heap, ocrDeps, th, ops, last, menv>>

\* _multi_standard_query 217-223 and _multi_streaming_query 241-247: the
\* fixed answer when nothing was merged.
AnswerEmpty ==
    /\ mq.pc = "answer"
    /\ ~NeedsSynthesis(mq.merged_nodes)
    /\ mq' = IF mq.streaming
             THEN [Respond(200) EXCEPT
                      !.events = <<[type |-> "token", text |-> NoResults, sources |-> <<>>],
                                   [type |-> "sources", text |-> "", sources |-> <<>>],
                                   [type |-> "done", text |-> "", sources |-> <<>>]>>]
             ELSE [Respond(200) EXCEPT !.answer = NoResults, !.sources = <<>>]
    /\ UNCHANGED <<ex, disk, instances, heap, ocrDeps, th, ops, last, menv>>

\* mgr.synthesize (225, 250): one call of the generation capability; its
\* failure leaves through the handler's except clause (184-185).
Synthesize ==
    /\ mq.pc = "answer"
    /\ NeedsSynthesis(mq.merged_nodes)
    /\ \/ mq' = [Respond(500) EXCEPT !.genCalls = @ + 1]
       \/ mq' = IF mq.streaming
                THEN [mq EXCEPT !.pc = "stream", !.status = 200, !.genCalls = @ + 1]
                ELSE [Respond(200) EXCEPT !.genCalls = @ + 1, !.answer = "generated",
                                          !.sources = mq.all_sources]
    /\ UNCHANGED <<ex, disk, instances, heap, ocrDeps, th, ops, last, menv>>

\* sse_generator 254-255: the next token of response_gen.
StreamToken ==
    /\ mq.pc = "stream"
    /\ Len(mq.events) < MaxTokens
    /\ mq' = [mq EXCEPT !.events =
                 Append(@, [type |-> "token", text |-> "generated", sources |-> <<>>])]
    /\ UNCHANGED <<ex, disk, instances, heap, ocrDeps, th, ops, last, menv>>

\* sse_generator 256, 260: response_gen is exhausted.
StreamEnd ==
    /\ mq.pc = "stream"
    /\ mq' = [mq EXCEPT !.pc = "done", !.events =
                 @ \o <<[type |-> "sources", text |-> "", sources |-> mq.all_sources],
                        [type |-> "done", text |-> "", sources |-> <<>>]>>]
    /\ UNCHANGED <<ex, disk, instances, heap, ocrDeps, th, ops, last, menv>>

\* sse_generator 257-260: response_gen raises.
StreamError ==
    /\ mq.pc = "stream"
    /\ mq' = [mq EXCEPT !.pc = "done", !.events =
                 @ \o <<[type |-> "error", text |-> "failed", sources |-> <<>>],
                        [type |-> "done", text |-> "", sources |-> <<>>]>>]
    /\ UNCHANGED <<ex, disk, instances, heap, ocrDeps, th, ops, last, menv>>

\* Another request deletes a domain while the query runs (_delete_domain_sync).
DomainDeleted(d) ==
    /\ mq.pc \in {"validate", "gather", "s_query", "s_run"}
    /\ d \in menv.exists
    /\ menv' = [menv EXCEPT !.exists = @ \ {d}]
    /\ UNCHANGED <<ex, disk, instances, heap, ocrDeps, th, ops, last, mq>>

\* ------------------------------------------------- the single-domain query
\* Text is a sequence of characters, so that str(response) and the
\* concatenation of the streamed tokens can be compared.
EmptyResponse == <<"Empty Response">>

\* The generation capability, deterministic in the retrieved context: one
\* token per node, every second one an empty increment; without nodes the
\* query engine answers "Empty Response" and calls no model.
GenerateTokens(nodes) ==
    IF nodes = <<>>
    THEN <<EmptyResponse>>
    ELSE [k \in DOMAIN nodes |->
             IF k % 2 = 0 THEN <<>> ELSE <<nodes[k].file_name, nodes[k].id[3]>>]

\* str(response) (domains.py 296): the whole generated text.
StrResponse(nodes) == Flatten(GenerateTokens(nodes))

\* response.source_nodes serialized (294, 312): no domain prefix here.
SourceNodes(nodes) == [k \in DOMAIN nodes |-> SerializeSourceNode(nodes[k])]

\* The events of sse_generator (310-317).
TokenEvent(text) == [type |-> "token", text |-> text, sources |-> <<>>]
SourcesEvent(sources) == [type |-> "sources", text |-> <<>>, sources |-> sources]
ErrorEvent == [type |-> "error", text |-> <<>>, sources |-> <<>>]
DoneEvent == [type |-> "done", text |-> <<>>, sources |-> <<>>]

\* `finally: yield "data: [DONE]\n\n"` (316-317).
NoFinally(events) == events
Finally(events) == Append(events, DoneEvent)

\* `for token in response.response_gen` (310): the next token, given how many
\* were yielded.
FirstToken(tokens, emitted) == tokens[1]
NextToken(tokens, emitted) == tokens[emitted + 1]

\* The nodes the query engine retrieves for the question.
Retrieved == TagNodes(mq.domains[1], menv.ranked[mq.domains[1]])

\* mgr.query (index_manager.py 412-415), called by _standard_query 293 and
\* _streaming_query 306: NotFound, or _query_sync is handed to a thread.
QueryCall ==
    /\ mq.pc = "s_query"
    /\ mq' = IF mq.domains[1] \in menv.exists
             THEN [mq EXCEPT !.pc = "s_run", !.checked = menv.exists]
             ELSE [Respond(404) EXCEPT !.checked = menv.exists]
    /\ UNCHANGED <<ex, disk, instances, heap, ocrDeps, th, ops, last, menv>>

\* _query_sync 227-258 and the handler's reply (domains.py 282-287, 293-299,
\* 306): the index load, the retrieval or the generation raises (500; NotFound
\* when the domain was deleted and its index is not cached), or the answer is
\* returned, whole or as a response whose response_gen is yet to be read.
QueryRun ==
    /\ mq.pc = "s_run"
    /\ \/ mq' = Respond(500)
       \/ /\ mq.domains[1] \notin menv.exists
          /\ mq' = Respond(404)
       \/ /\ Retrieved # <<>>
          /\ mq' = [Respond(500) EXCEPT !.genCalls = @ + 1,
                                        !.merged_nodes = Retrieved]
       \/ mq' = IF mq.streaming
                THEN [mq EXCEPT !.pc = "s_stream", !.status = 200,
                                !.merged_nodes = Retrieved,
                                !.genCalls = IF Retrieved = <<>> THEN @ ELSE @ + 1]
                ELSE [Respond(200) EXCEPT
                         !.merged_nodes = Retrieved,
                         !.genCalls = IF Retrieved = <<>> THEN @ ELSE @ + 1,
                         !.answer = StrResponse(Retrieved),
                         !.sources = SourceNodes(Retrieved)]
    /\ UNCHANGED <<ex, disk, instances, heap, ocrDeps, th, ops, last, menv>>

\* sse_generator 310-311: response_gen yields its next token.
QueryStreamToken ==
    /\ mq.pc = "s_stream"
    /\ Len(mq.events) < Len(GenerateTokens(mq.merged_nodes))
    /\ mq' = [mq EXCEPT !.events =
                 Append(@, TokenEvent(NextToken(GenerateTokens(mq.merged_nodes),
                                                Len(mq.events))))]
    /\ UNCHANGED <<ex, disk, instances, heap, ocrDeps, th, ops, last, menv>>

\* sse_generator 312-313, 316-317: response_gen is exhausted, the sources and
\* the terminal event follow.
QueryStreamEnd ==
    /\ mq.pc = "s_stream"
    /\ Len(mq.events) = Len(GenerateTokens(mq.merged_nodes))
    /\ mq' = [mq EXCEPT !.pc = "done", !.events =
                 Finally(Append(@, SourcesEvent(SourceNodes(mq.merged_nodes))))]
    /\ UNCHANGED <<ex, disk, instances, heap, ocrDeps, th, ops, last, menv>>

\* sse_generator 314-317: response_gen raises, after any number of tokens.
QueryStreamError ==
    /\ mq.pc = "s_stream"
    /\ mq' = [mq EXCEPT !.pc = "done", !.events = Finally(Append(@, ErrorEvent))]
    /\ UNCHANGED <<ex, disk, instances, heap, ocrDeps, th, ops, last, menv>>


DomainLists == UNION {[1 .. k -> QueryDomains] : k \in 0 .. MaxDomains}

\* --------------------------------------------------------- specifications
NoOutput == [raised |-> FALSE, pages |-> <<>>, ocr |-> FALSE, ocrCalls |-> {}]

ExIdle == [pc |-> "off", pdf |-> Corrupt, deps |-> "available", out |-> NoOutput]

\* A domain directory left by an earlier run of the server: the domain was
\* created and TwoPages was uploaded to it as "x".
StoredDir(name) ==
    [dir |-> TRUE, pdfdir |-> TRUE,
     meta |-> [exists |-> TRUE, name |-> name, doc_count |-> 2],
     index |-> [exists |-> TRUE,
                docs |-> RefreshRefDocs(NoDocs,
                            Documents(name, <<"x">>,
                                      ExtractTextFromPdf(TwoPages, "available").pages))],
     pdfs |-> [f \in {<<"x">>} |-> TwoPages]]

\* IndexManager.__init__ (28-31): nothing is cached; the data directory is empty
\* or holds the domains of an earlier run.
InitManager ==
    /\ disk \in [Domains -> {EmptyDir} \cup {StoredDir(d) : d \in Domains}]
    /\ \A d \in Domains : disk[d] \in {EmptyDir, StoredDir(d)}
    /\ instances = [d \in Domains |-> 0]
    /\ heap = <<>>
    /\ ocrDeps = "available"
    /\ th = [t \in Threads |-> IdleSlot]
    /\ ops = 0
    /\ last = NoLast

Init ==
    /\ InitManager
    /\ ex = ExIdle
    /\ menv = MenvOff
    /\ mq = MqOff

CreateSteps(t) ==
    \/ \E name \in Domains : StartCreate(t, name)
    \/ CreateNew(t)
    \/ CreateCache(t)
    \/ CreateMeta(t)

DeleteDomainSteps(t) ==
    \/ \E name \in Domains : StartDeleteDomain(t, name)
    \/ DeleteDomainPop(t)
    \/ DeleteDomainRmtree(t)

LoadSteps(t) ==
    \/ GetOrLoad(t)
    \/ LoadIndex(t)
    \/ StoreIndex(t)

UploadSteps(t, batches) ==
    \/ \E name \in Domains, files \in batches : StartUpload(t, name, files)
    \/ UploadFile(t)
    \/ IngestCall(t)
    \/ IngestDoc(t)
    \/ IngestPersist(t)
    \/ IngestMeta(t)
    \/ IngestWrite(t)

DeleteDocumentSteps(t) ==
    \/ \E name \in Domains, fn \in FileNames : StartDeleteDocument(t, name, fn)
    \/ DeleteApply(t)
    \/ DeletePersist(t)
    \/ DeleteMeta(t)
    \/ DeleteWrite(t)

RetrieveSteps(t) ==
    \/ \E name \in Domains : StartRetrieve(t, name)
    \/ \E name \in Domains : StartQuery(t, name)
    \/ Retrieve(t)
    \/ \E name \in Domains : StartGet(t, name)
    \/ \E name \in Domains : StartList(t, name)
    \/ ListDocuments(t)

\* The requests that write to a domain without removing it.
WriterSteps(t, batches) ==
    \/ CreateSteps(t)
    \/ LoadSteps(t)
    \/ UploadSteps(t, batches)
    \/ DeleteDocumentSteps(t)
    \/ Return(t)

Step(t, batches) ==
    \/ WriterSteps(t, batches)
    \/ DeleteDomainSteps(t)
    \/ RetrieveSteps(t)

\* Concurrent requests; their uploads carry one file each.
OneFile == {b \in Batches : Len(b) = 1}

Next == \E t \in Threads : Step(t, OneFile)

Spec == Init /\ [][Next]_vars

\* One request at a time: each is answered before the next arrives.
NextSeq == \E t \in {"t1"} : Step(t, Batches)

SpecSeq == Init /\ [][NextSeq]_vars

\* Concurrent create_domain, upload and delete_document requests only, and no
\* file whose extraction fails.
NextWriters ==
    \E t \in Threads : WriterSteps(t, {b \in OneFile : ~b[1].pdf.corrupt})

SpecWriters == Init /\ [][NextWriters]_vars

\* The requests that write to a domain.
Mutating == {"create", "upload", "delete_document", "delete_domain"}

\* The requests that read a domain.
ReadOps == {"retrieve", "query", "list_documents", "get"}

\* Reads run concurrently with reads, a writing request runs alone (its client
\* has the answers of the requests before it, and sends nothing until it is
\* answered).
CanRead(t) == \A u \in Threads \ {t} : th[u].op \notin Mutating

CanWrite(t) == \A u \in Threads \ {t} : th[u].pc = "idle"

Reading(t) == CanRead(t) /\ th[t].op \in ReadOps

Writing(t) == CanWrite(t) /\ th[t].op \in Mutating

ReaderSteps(t) ==
    \/ CanRead(t) /\ \E name \in Domains : StartRetrieve(t, name)
    \/ CanRead(t) /\ \E name \in Domains : StartQuery(t, name)
    \/ CanRead(t) /\ \E name \in Domains : StartGet(t, name)
    \/ CanRead(t) /\ \E name \in Domains : StartList(t, name)
    \/ Reading(t) /\ GetOrLoad(t)
    \/ Reading(t) /\ LoadIndex(t)
    \/ Reading(t) /\ StoreIndex(t)
    \/ Reading(t) /\ Retrieve(t)
    \/ Reading(t) /\ ListDocuments(t)
    \/ Reading(t) /\ Return(t)

SoleWriterSteps(t) ==
    \/ CanWrite(t) /\ \E name \in Domains : StartCreate(t, name)
    \/ CanWrite(t) /\ \E name \in Domains : StartDeleteDomain(t, name)
    \/ CanWrite(t) /\ \E name \in Domains, files \in OneFile : StartUpload(t, name, files)
    \/ CanWrite(t) /\ \E name \in Domains, fn \in FileNames :
                          StartDeleteDocument(t, name, fn)
    \/ Writing(t) /\ CreateNew(t)
    \/ Writing(t) /\ CreateCache(t)
    \/ Writing(t) /\ CreateMeta(t)
    \/ Writing(t) /\ DeleteDomainPop(t)
    \/ Writing(t) /\ DeleteDomainRmtree(t)
    \/ Writing(t) /\ GetOrLoad(t)
    \/ Writing(t) /\ LoadIndex(t)
    \/ Writing(t) /\ StoreIndex(t)
    \/ Writing(t) /\ UploadFile(t)
    \/ Writing(t) /\ IngestCall(t)
    \/ Writing(t) /\ IngestDoc(t)
    \/ Writing(t) /\ IngestPersist(t)
    \/ Writing(t) /\ IngestMeta(t)
    \/ Writing(t) /\ IngestWrite(t)
    \/ Writing(t) /\ DeleteApply(t)
    \/ Writing(t) /\ DeletePersist(t)
    \/ Writing(t) /\ DeleteMeta(t)
    \/ Writing(t) /\ DeleteWrite(t)
    \/ Writing(t) /\ Return(t)

NextReaders == \E t \in Threads : ReaderSteps(t) \/ SoleWriterSteps(t)

SpecReaders == Init /\ [][NextReaders]_vars

\* ------------------------------------------------- the extraction function
\* Page sets of an n-page PDF: the first k pages, or the last k.
PageSets(n) == {0 .. (k - 1) : k \in 0 .. n} \cup {(n - k) .. (n - 1) : k \in 0 .. n}

PdfInputs ==
    {Corrupt} \cup
    UNION {[n : {n}, text : PageSets(n), ocr : PageSets(n), corrupt : {FALSE},
            ver : {"v1"}] : n \in 0 .. MaxPages}

\* A fresh manager that no request reaches.
ManagerOff ==
    /\ disk = [d \in Domains |-> EmptyDir]
    /\ instances = [d \in Domains |-> 0]
    /\ heap = <<>>
    /\ ocrDeps = "available"
    /\ th = [t \in Threads |-> IdleSlot]
    /\ ops = 0
    /\ last = NoLast

InitExtract ==
    /\ ManagerOff
    /\ menv = MenvOff
    /\ mq = MqOff
    /\ \E pdf \in PdfInputs, deps \in OcrModes :
          ex = [pc |-> "call", pdf |-> pdf, deps |-> deps, out |-> NoOutput]

\* One call of _extract_text_from_pdf (127-163).
ExtractCall ==
    /\ ex.pc = "call"
    /\ ex' = [ex EXCEPT !.pc = "done", !.out = ExtractTextFromPdf(ex.pdf, ex.deps)]
    /\ UNCHANGED <<disk, instances, heap, ocrDeps, th, ops, last, menv, mq>>

SpecExtract == InitExtract /\ [][ExtractCall]_vars

\* A multi-domain query arrives: its domain list, the domains that exist and
\* what their indexes rank for the question.
InitMulti ==
    /\ ManagerOff
    /\ ex = ExIdle
    /\ \E exists \in SUBSET QueryDomains :
       \E ranked \in [QueryDomains -> UNION {Rankings(d) : d \in QueryDomains}] :
          /\ \A d \in QueryDomains : ranked[d] \in Rankings(d)
          /\ menv = [exists |-> exists, ranked |-> ranked]
    /\ \E domains \in DomainLists, streaming \in BOOLEAN :
          mq = [MqOff EXCEPT !.pc = "validate", !.domains = domains,
                             !.streaming = streaming]

NextMulti ==
    \/ ValidateRequest
    \/ LaunchRetrieval
    \/ \E i \in 1 .. MaxDomains : CompleteRetrieval(i)
    \/ Merge
    \/ AnswerEmpty
    \/ Synthesize
    \/ StreamToken
    \/ StreamEnd
    \/ StreamError
    \/ \E d \in QueryDomains : DomainDeleted(d)

SpecMulti == InitMulti /\ [][NextMulti]_vars

\* A single-domain query arrives: its domain, the domains that exist and what
\* their indexes rank for the question.
InitSingle ==
    /\ ManagerOff
    /\ ex = ExIdle
    /\ \E exists \in SUBSET QueryDomains :
       \E ranked \in [QueryDomains -> UNION {Rankings(d) : d \in QueryDomains}] :
          /\ \A d \in QueryDomains : ranked[d] \in Rankings(d)
          /\ menv = [exists |-> exists, ranked |-> ranked]
    /\ \E name \in QueryDomains, streaming \in BOOLEAN :
          mq = [MqOff EXCEPT !.pc = "s_query", !.domains = <<name>>,
                             !.streaming = streaming]

NextSingle ==
    \/ QueryCall
    \/ QueryRun
    \/ QueryStreamToken
    \/ QueryStreamEnd
    \/ QueryStreamError
    \/ \E d \in QueryDomains : DomainDeleted(d)

SpecSingle == InitSingle /\ [][NextSingle]_vars

\* Both query handlers; the server reads a started event stream to its end.
StreamStep ==
    \/ StreamToken
    \/ StreamEnd
    \/ StreamError
    \/ QueryStreamToken
    \/ QueryStreamEnd
    \/ QueryStreamError

NextQuery == NextMulti \/ NextSingle

SpecQuery == (InitMulti \/ InitSingle) /\ [][NextQuery]_vars /\ WF_vars(StreamStep)

\* ------------------------------------------------------------------ claims

\* The slot is between the start of its index mutation and the end of its
\* persist / metadata write.
InMutation(t) ==
    \/ th[t].op = "upload" /\ th[t].mut
         /\ th[t].pc \in {"ing_doc", "ing_persist", "ing_meta", "ing_write"}
    \/ th[t].op = "delete_document" /\ th[t].pc \in {"del_persist", "del_meta", "del_write"}
    \/ th[t].op = "delete_domain" /\ th[t].pc = "dd_rm"

\* No mutating request on the domain is in progress.
Quiet(d) ==
    \A t \in Threads :
        (th[t].name = d /\ th[t].op \in Mutating) => th[t].pc \in {"idle", "done"}

\* C1: mutating operations on the same domain are mutually exclusive: at most
\* one ingest, document deletion or domain deletion on a domain is at any time
\* between the start of its index mutation and the end of its persist /
\* metadata write.
C1_MutualExclusion ==
    \A t1, t2 \in Threads :
        (t1 # t2 /\ th[t1].name = th[t2].name) => ~(InMutation(t1) /\ InMutation(t2))

\* C2: for every existing domain, whenever no mutating operation on it is in
\* progress, the doc_count of its metadata equals the number of chunk entries
\* in its index.
C2_ChunkCount ==
    \A d \in Domains :
        (domain_exists(d) /\ Quiet(d)) =>
            disk[d].meta.doc_count = Cardinality(DOMAIN Chunks(d))

\* A deleted domain: no cache entry and nothing persisted.
Gone(d) == instances[d] = 0 /\ disk[d] = EmptyDir

\* C3: domain deletion is complete and final: when delete_domain(d) returns
\* successfully d has no cache entry and no persisted state, and that stays so
\* until a step of a later create_domain(d), whatever was in flight on d.
C3_DeletionFinal ==
    [][\A d \in Domains :
          /\ (\E t \in Threads : th[t].name = d /\ th[t].pc = "dd_rm"
                                   /\ th'[t].pc = "done") => Gone(d)'
          /\ (Gone(d) /\ ~(\E t \in Threads : th'[t] # th[t] /\ th'[t].op = "create"))
                => Gone(d)']_vars

\* The documents a file of an upload puts in the index.
FileDocuments(name, f) ==
    Documents(name, f.fn, ExtractTextFromPdf(f.pdf, ocrDeps).pages)

\* An answered upload whose files were all ingested, unchanged, by the upload
\* answered just before it, with no other request in between.
Reingested(t) ==
    /\ th[t].pc = "done" /\ th[t].op = "upload" /\ th[t].result.kind = "ok"
    /\ last.op = "upload" /\ last.kind = "ok" /\ last.name = th[t].name
    /\ Range(th[t].files) \subseteq Range(last.files)

\* C4: re-ingestion is idempotent: ingesting the same unchanged documents a
\* second time leaves the chunk identities (and the chunks) of the domain and
\* its chunk count as they were after the first ingestion.
C4_ReingestIdempotent ==
    \A t \in Threads :
        Reingested(t) =>
            /\ Chunks(th[t].name) = last.docs
            /\ disk[th[t].name].meta.doc_count = last.count

\* C4's case: a second ingestion of files that put chunks in the index.
C4_Witness ==
    \E t \in Threads :
        /\ Reingested(t)
        /\ \E i \in DOMAIN th[t].files :
              FileDocuments(th[t].name, th[t].files[i]) # <<>>
        /\ Cardinality(DOMAIN Chunks(th[t].name)) > 0

\* C5: extraction failures are isolated per document: an ingest call over
\* files of which one fails extraction does not abort; every file whose
\* extraction succeeds is upserted, persisted and counted.
C5_ExtractionIsolated ==
    \A t \in Threads :
        (th[t].pc = "done" /\ th[t].op = "upload"
           /\ th[t].result.kind \notin {"NotFound", "NotPdf"}) =>
            /\ th[t].result.kind = "ok"
            /\ \A i \in DOMAIN th[t].files :
                  \A k \in DOMAIN FileDocuments(th[t].name, th[t].files[i]) :
                      FileDocuments(th[t].name, th[t].files[i])[k].id
                          \in DOMAIN disk[th[t].name].index.docs
            /\ disk[th[t].name].meta.doc_count =
                   Cardinality(DOMAIN disk[th[t].name].index.docs)

\* The page numbers of an extraction result.
PageNums(pages) == {pages[k][1] : k \in DOMAIN pages}

\* The result holds exactly the pages of `keep`, once each, all from `src`.
ExactlyPages(pages, keep, src) ==
    /\ PageNums(pages) = keep
    /\ Len(pages) = Cardinality(keep)
    /\ \A k \in DOMAIN pages : pages[k][2].src = src

\* T < max(1, N / 10) for the extracted PDF, T its pages with text.
BelowTenPercent ==
    10 * Cardinality(ex.pdf.text) < Max(10, ex.pdf.n)

\* C6 as stated: for a document with N pages of which T yield text, OCR is run
\* iff T < max(1, N/10); when it is run the chunks are exactly the pages with
\* non-empty OCR text; when it is not, they are exactly the T text pages and no
\* page is OCR'd.
C6_OcrIffThreshold ==
    (ex.pc = "done" /\ ~ex.pdf.corrupt) =>
        /\ ex.out.ocr <=> BelowTenPercent
        /\ ex.out.ocr => ExactlyPages(ex.out.pages, ex.pdf.ocr, "ocr")
        /\ ~ex.out.ocr => /\ ExactlyPages(ex.out.pages, ex.pdf.text, "text")
                          /\ ex.out.ocrCalls = {}

\* C6 amended: OCR is run iff T < max(1, N/10) and the OCR packages can be
\* imported; when it runs without error the chunks are exactly the pages with
\* non-empty OCR text and no text-extraction result is kept; when it raises the
\* document yields no chunks; when it is not run (the threshold is not met, or
\* the packages are missing) the chunks are exactly the T text pages and no
\* page is OCR'd.
C6_OcrFallback ==
    (ex.pc = "done" /\ ~ex.pdf.corrupt) =>
        /\ ex.out.ocr <=> (BelowTenPercent /\ ex.deps # "missing")
        /\ (ex.out.ocr /\ ~ex.out.raised) =>
               /\ ExactlyPages(ex.out.pages, ex.pdf.ocr, "ocr")
               /\ ex.out.ocrCalls = Pages(ex.pdf)
        /\ ex.out.raised => (ex.out.ocr /\ ex.out.pages = <<>>)
        /\ ~ex.out.ocr => /\ ExactlyPages(ex.out.pages, ex.pdf.text, "text")
                          /\ ex.out.ocrCalls = {}
                          /\ ~ex.out.raised

\* C6's case: a document over ten pages with a page of text under the 10%
\* threshold, whose text result was dropped for the OCR pages.
C6_Witness ==
    /\ ex.pc = "done" /\ ex.out.ocr /\ ~ex.out.raised
    /\ ex.pdf.n > 10 /\ ex.pdf.text # {}
    /\ ex.pdf.ocr # {} /\ ex.pdf.ocr # ex.pdf.text
    /\ PageNums(ex.out.pages) = ex.pdf.ocr

\* The query is past _gather_nodes (400 and 404 are the validation failures).
PastMerge ==
    \/ mq.pc \in {"answer", "stream"}
    \/ mq.pc = "done" /\ mq.status \in {200, 500}

\* The positions of the domain list whose retrieval returned nodes.
Succeeded == {i \in DOMAIN mq.results : mq.results[i].state = "nodes"}

\* C7: multi-domain validation precedes all work: no retrieval and no
\* generation call is issued unless the domain list is non-empty and every named
\* domain exists; an empty list fails validation (400) and a list naming a
\* nonexistent domain fails with NotFound (404), with zero retrievals started.
C7_ValidationFirst ==
    /\ (mq.launched > 0 \/ mq.genCalls > 0) =>
           /\ mq.domains # <<>>
           /\ \A i \in DOMAIN mq.domains : mq.domains[i] \in mq.checked
    /\ (mq.pc \notin {"off", "validate"} /\ mq.domains = <<>>) =>
           (mq.pc = "done" /\ mq.status = 400 /\ mq.launched = 0 /\ mq.genCalls = 0)
    /\ (mq.pc \notin {"off", "validate"}
          /\ \E i \in DOMAIN mq.domains : mq.domains[i] \notin mq.checked) =>
           (mq.pc = "done" /\ mq.status = 404 /\ mq.launched = 0 /\ mq.genCalls = 0)

\* C7's case: a list whose first domain exists and whose last does not was
\* refused before any retrieval.
C7_Witness ==
    /\ mq.pc = "done" /\ mq.status = 404 /\ mq.launched = 0
    /\ Len(mq.domains) >= 2
    /\ mq.domains[1] \in mq.checked
    /\ mq.domains[Len(mq.domains)] \notin mq.checked

\* C8: retrieval failures are isolated in the fan-out: when retrieval fails for
\* some of the domains the request does not fail, every sibling retrieval runs
\* to its end, and the merged nodes and sources are exactly the nodes returned
\* by the retrievals that succeeded, none attributed to a failed one.
C8_FailuresIsolated ==
    /\ mq.status = 500 => mq.genCalls > 0
    /\ PastMerge =>
          /\ \A i \in DOMAIN mq.results : mq.results[i].state \in {"nodes", "exc"}
          /\ \A i \in Succeeded :
                mq.results[i].nodes =
                    TagNodes(mq.domains[i], menv.ranked[mq.domains[i]])
          /\ Range(mq.merged_nodes) = UNION {Range(mq.results[i].nodes) : i \in Succeeded}
          /\ Len(mq.merged_nodes) =
                Cardinality({<<i, k>> \in (DOMAIN mq.results) \X (1 .. similarity_top_k) :
                                i \in Succeeded /\ k \in DOMAIN mq.results[i].nodes})
          /\ Len(mq.all_sources) = Len(mq.merged_nodes)
          /\ \A k \in DOMAIN mq.all_sources :
                \E i \in Succeeded :
                    /\ mq.all_sources[k].filename[1] = mq.domains[i]
                    /\ \E j \in DOMAIN mq.results[i].nodes :
                          mq.results[i].nodes[j].id = mq.all_sources[k].doc_id

\* C8's case: one retrieval failed, another returned nodes, and the request
\* went on with those.
C8_Witness ==
    /\ PastMerge /\ mq.status # 500
    /\ \E i \in DOMAIN mq.results : mq.results[i].state = "exc"
    /\ \E i \in Succeeded : mq.results[i].nodes # <<>>
    /\ mq.merged_nodes # <<>>

\* C9: merge order is deterministic whatever the order in which the
\* retrievals complete: the merged nodes are the concatenation, in input domain
\* order, of each domain's result in its own ranking order, and the source list
\* has the same length and order, each filename being <owning domain>/<filename>.
C9_MergeOrder ==
    PastMerge =>
       /\ mq.merged_nodes =
             Flatten([i \in DOMAIN mq.domains |->
                        IF i \in Succeeded
                        THEN TagNodes(mq.domains[i], menv.ranked[mq.domains[i]])
                        ELSE <<>>])
       /\ Len(mq.all_sources) = Len(mq.merged_nodes)
       /\ \A k \in DOMAIN mq.all_sources :
             /\ mq.all_sources[k].doc_id = mq.merged_nodes[k].id
             /\ mq.all_sources[k].filename =
                    <<mq.merged_nodes[k].domain, "/", mq.merged_nodes[k].file_name>>

\* C9's case: the retrieval of a later domain completed before that of an
\* earlier one, both returned nodes, and both domains hold a file "x".
C9_Witness ==
    /\ PastMerge
    /\ \E a, b \in DOMAIN mq.order :
          /\ a < b /\ mq.order[a] > mq.order[b]
          /\ mq.order[a] \in Succeeded /\ mq.order[b] \in Succeeded
          /\ mq.domains[mq.order[a]] # mq.domains[mq.order[b]]
          /\ mq.results[mq.order[a]].nodes # <<>>
          /\ mq.results[mq.order[b]].nodes # <<>>

\* C10: when the merge yields zero nodes, the streaming and the non-streaming
\* path return the fixed "no results" answer with an empty source list and
\* never invoke the generation capability.
C10_NoResultsAnswer ==
    (PastMerge /\ mq.merged_nodes = <<>>) =>
       /\ mq.genCalls = 0
       /\ mq.pc # "stream"
       /\ mq.pc = "done" =>
             /\ mq.status = 200
             /\ mq.streaming =>
                   /\ Len(mq.events) = 3
                   /\ mq.events[1] = [type |-> "token", text |-> NoResults,
                                      sources |-> <<>>]
                   /\ mq.events[2].type = "sources" /\ mq.events[2].sources = <<>>
                   /\ mq.events[3].type = "done"
             /\ ~mq.streaming => (mq.answer = NoResults /\ mq.sources = <<>>)

\* C10's case: a streaming query answered when one retrieval failed and the
\* other domain's index returned nothing.
C10_Witness ==
    /\ mq.pc = "done" /\ mq.status = 200 /\ mq.streaming
    /\ mq.merged_nodes = <<>>
    /\ \E i \in DOMAIN mq.results : mq.results[i].state = "exc"
    /\ \E i \in Succeeded : mq.results[i].nodes = <<>>

\* The number of events of a type in the response so far.
EventCount(type) ==
    Cardinality({k \in DOMAIN mq.events : mq.events[k].type = type})

\* An event stream was started and has ended.
StreamClosed == mq.pc = "done" /\ mq.events # <<>>

\* C11: every streaming response, single-domain or multi-domain, whether or
\* not generation fails, is a sequence of text-increment events with exactly
\* one sources event, at most one error event and exactly one terminal event,
\* which is the last event.
C11_EventProtocol ==
    StreamClosed =>
       /\ \A k \in DOMAIN mq.events :
             mq.events[k].type \in {"token", "sources", "error", "done"}
       /\ EventCount("sources") = 1
       /\ EventCount("error") <= 1
       /\ EventCount("done") = 1
       /\ mq.events[Len(mq.events)].type = "done"

\* The event stream is being produced.
InStream == mq.pc \in {"stream", "s_stream"}

\* C12: a started stream always closes: it reaches its end with the terminal
\* event as its last event; when the token source raises, after any number of
\* tokens, an error event is emitted, then the terminal event, and no
\* text-increment event follows the error.
C12_StreamCloses ==
    /\ [](\A k \in DOMAIN mq.events :
             mq.events[k].type = "error" =>
                /\ mq.pc = "done"
                /\ k + 1 = Len(mq.events)
                /\ mq.events[k + 1].type = "done")
    /\ [](StreamClosed => mq.events[Len(mq.events)].type = "done")
    /\ (InStream ~> StreamClosed)

\* C12's case: the token source raised after a token was emitted, and the
\* stream was closed by the error and the terminal event.
C12_Witness ==
    /\ StreamClosed
    /\ Len(mq.events) >= 3
    /\ mq.events[1].type = "token"
    /\ mq.events[Len(mq.events) - 1].type = "error"
    /\ mq.events[Len(mq.events)].type = "done"

\* The concatenation of the text-increment events of the response.
StreamedText ==
    Flatten([k \in 1 .. EventCount("token") |-> mq.events[k].text])

C13_CreateThenGet ==
    [][\A t \in Threads :
          /\ (th[t].pc = "idle" /\ th'[t].op = "create") =>
                IF disk[th'[t].name].meta.exists
                THEN /\ th'[t].pc = "done"
                     /\ th'[t].result.kind = "AlreadyExists"
                     /\ UNCHANGED <<disk, instances, heap>>
                ELSE th'[t].pc # "done"
          /\ (th[t].op = "create" /\ th[t].pc # "done" /\ th'[t].pc = "done") =>
                th'[t].result.kind = "ok"
          /\ (th[t].pc = "idle" /\ th'[t].op = "get"
                /\ last.op = "create" /\ last.kind = "ok"
                /\ last.name = th'[t].name) =>
                /\ th'[t].result.kind = "ok"
                /\ th'[t].result.nodes = {[name |-> th'[t].name, doc_count |-> 0]}]_vars

\* C13's case: the get_domain that follows a successful create_domain has been
\* answered.
C13_Witness ==
    \E t \in Threads :
        /\ th[t].op = "get" /\ th[t].pc = "done" /\ th[t].result.kind = "ok"
        /\ last.op = "create" /\ last.kind = "ok" /\ last.name = th[t].name

\* The chunks of an index whose filename component is fn.
ChunksOf(docs, fn) == {id \in DOMAIN docs : docs[id].file = fn}

\* C14: delete_document(d, f) fails with NotFound when d does not exist and
\* with DocumentNotFound when d exists but no indexed chunk has filename f; in
\* both cases the index, the persisted state and the stored files are unchanged.
C14_DeleteDocumentErrors ==
    [][\A t \in Threads :
          /\ (th[t].pc = "idle" /\ th'[t].op = "delete_document"
                /\ ~disk[th'[t].name].meta.exists) =>
                /\ th'[t].pc = "done"
                /\ th'[t].result.kind = "NotFound"
                /\ UNCHANGED <<disk, instances, heap>>
          /\ (th[t].op = "delete_document" /\ th[t].pc = "del_apply"
                /\ th'[t] # th[t]
                /\ ChunksOf(heap[th[t].index], th[t].fn) = {}) =>
                /\ th'[t].pc = "done"
                /\ th'[t].result.kind = "DocumentNotFound"
                /\ UNCHANGED <<disk, instances, heap>>]_vars

\* C15: a successful delete_document(d, f) removes exactly the chunks whose
\* filename component equals f: none of them remains, every chunk of every
\* other filename (also one that has f as a prefix or contains "::") is still
\* there unchanged, and d still exists, its chunk count that of its index.
C15_DeleteExact ==
    [][\A t \in Threads :
          /\ (th[t].op = "delete_document" /\ th[t].pc = "del_apply"
                /\ th'[t].pc = "del_persist") =>
                LET docs == heap[th[t].index]
                    kept == DOMAIN docs \ ChunksOf(docs, th[t].fn)
                IN  heap'[th[t].index] = [id \in kept |-> docs[id]]
          /\ (th[t].op = "delete_document" /\ th[t].pc = "del_write"
                /\ th'[t].pc = "done" /\ th'[t].result.kind = "ok") =>
                /\ disk'[th[t].name].meta.exists
                /\ disk'[th[t].name].meta.doc_count =
                       Cardinality(DOMAIN heap[th[t].index])
                /\ disk'[th[t].name].index.docs = heap[th[t].index]]_vars

\* C16: every operation that takes a domain name fails with NotFound when no
\* metadata record exists for the name, and then creates or changes no cache
\* entry and no persisted state.
C16_NotFound ==
    [][\A t \in Threads :
          /\ (th[t].pc = "idle" /\ th'[t].pc # "idle" /\ th'[t].op # "create"
                /\ ~disk[th'[t].name].meta.exists) =>
                /\ th'[t].pc = "done"
                /\ th'[t].result.kind = "NotFound"
                /\ UNCHANGED <<disk, instances, heap>>
          /\ (th[t].pc = "up_call" /\ th'[t] # th[t]
                /\ ~disk[th[t].name].meta.exists) =>
                /\ th'[t].pc = "done"
                /\ th'[t].result.kind = "NotFound"
                /\ UNCHANGED <<disk, instances, heap>>]_vars

\* C16's case: a list_documents on a domain that has just been deleted was
\* refused.
C16_Witness ==
    \E t \in Threads :
        /\ th[t].op = "list_documents" /\ th[t].pc = "done"
        /\ th[t].result.kind = "NotFound"
        /\ last.op = "delete_domain" /\ last.kind = "ok"

\* C17: the value ingest_pdfs returns is the number of chunks newly written by
\* the call, summed over its documents (not the number of files); a document
\* that yields no chunk adds 0.
C17_IngestReturn ==
    [][\A t \in Threads :
          /\ (th[t].pc = "ing_doc" /\ th'[t].pc \in {"ing_doc", "ing_persist"}) =>
                LET old == heap[th[t].index]
                    new == heap'[th[t].index]
                IN  th'[t].new_count - th[t].new_count =
                       Cardinality({id \in DOMAIN new :
                                       id \notin DOMAIN old \/ new[id] # old[id]})
          /\ (th[t].pc = "ing_write" /\ th'[t].pc = "done"
                /\ th'[t].result.kind = "ok") =>
                th'[t].result.val = th[t].new_count]_vars

\* The file names of the chunks of an index.
IndexedFiles(docs) == {docs[id].file : id \in DOMAIN docs}

\* C18: list_documents returns one entry per distinct indexed filename, with
\* num_chunks the number of that file's page-level chunks, so that the
\* num_chunks values sum to the domain's chunk count.
C18_ListDocuments ==
    \A t \in Threads :
        (th[t].op = "list_documents" /\ th[t].pc = "done"
           /\ th[t].result.kind = "ok") =>
            th[t].result.nodes =
                {[filename |-> f,
                  num_chunks |-> Cardinality(ChunksOf(heap[th[t].index], f))] :
                    f \in IndexedFiles(heap[th[t].index])}

\* C20: between the first load or the creation of a domain's index and the
\* domain's deletion every operation gets the same handle: no step other than
\* the eviction of delete_domain removes or replaces the cache entry.
C20_SingleHandle ==
    [][\A d \in Domains :
          instances[d] # 0 =>
             \/ instances'[d] = instances[d]
             \/ /\ instances'[d] = 0
                /\ \E t \in Threads :
                      /\ th[t].op = "delete_domain" /\ th[t].name = d
                      /\ th[t].pc = "dd_pop" /\ th'[t].pc = "dd_rm"]_vars

\* The persisted index and the chunk count of a domain are those of the index.
PersistedIs(name, docs) ==
    /\ disk[name].index.exists
    /\ disk[name].index.docs = docs
    /\ disk[name].meta.doc_count = Cardinality(DOMAIN docs)

\* C21: ingestion persists the index and updates the chunk count once for each
\* document processed, right after that document's chunks are upserted and
\* before the next document of the same call is extracted: when the loop
\* turns to a further document after an upsert of this call, the persisted
\* index and the chunk count are those of the index in memory.
C21_PersistPerDocument ==
    [][\A t \in Threads :
          (th[t].op = "upload" /\ th[t].pc = "ing_doc" /\ th[t].mut
             /\ th'[t] # th[t]) =>
                PersistedIs(th[t].name, heap[th[t].index])]_vars

\* No stored chunk of the domain, cached or persisted, carries a "_domain" tag.
Untagged(d) ==
    /\ \A id \in DOMAIN Chunks(d) : Chunks(d)[id].tag = ""
    /\ \A id \in DOMAIN disk[d].index.docs : disk[d].index.docs[id].tag = ""

\* C22: retrieval is read-only with respect to domain state: the steps of
\* retrieve_nodes(d, q) leave d's indexed chunks (with their stored metadata),
\* its persisted index and its metadata record unchanged; the source-domain tag
\* is on the returned nodes only, and no later query or retrieval gets a node
\* that carried a tag before the call tagged it.
C22_RetrievalReadOnly ==
    [][\A t \in Threads :
          /\ \A d \in Domains :
                (th'[t].op = "retrieve" /\ th'[t].name = d /\ th'[t] # th[t]) =>
                   /\ disk'[d] = disk[d]
                   /\ Chunks(d)' = Chunks(d)
                   /\ Untagged(d)'
          /\ (th[t].pc = "ret" /\ th'[t].pc = "done") =>
                /\ \A n \in th'[t].result.nodes :
                      /\ heap[th[t].index][n.id].tag = ""
                      /\ n.meta.tag = IF th[t].op = "retrieve" THEN th[t].name ELSE ""
                      /\ [n.meta EXCEPT !.tag = ""] = heap[th[t].index][n.id]]_vars

\* C22's case: a single-domain query answered with nodes of the cached index
\* from which the retrieve_nodes answered just before it took, and tagged, its
\* nodes.
C22_Witness ==
    \E t \in Threads :
        /\ th[t].op = "query" /\ th[t].pc = "done" /\ th[t].result.kind = "ok"
        /\ th[t].result.nodes # {}
        /\ th[t].index = instances[th[t].name]
        /\ last.op = "retrieve" /\ last.kind = "ok" /\ last.name = th[t].name
        /\ last.docs = heap[th[t].index]

\* C23: upload validation happens before any mutation: when a file of an
\* upload batch is refused as not a PDF, no step of the request writes a file
\* of the batch to the domain's stored files or changes the index or the chunk
\* count, and the request fails.
C23_ValidationBeforeMutation ==
    [][\A t \in Threads :
          (th'[t].op = "upload" /\ th'[t] # th[t]
             /\ \E i \in DOMAIN th'[t].files : ~th'[t].files[i].accepted) =>
                /\ disk'[th'[t].name].pdfs = disk[th'[t].name].pdfs
                /\ disk'[th'[t].name].index = disk[th'[t].name].index
                /\ disk'[th'[t].name].meta = disk[th'[t].name].meta
                /\ UNCHANGED <<instances, heap>>
                /\ th'[t].pc = "done" => th'[t].result.kind \in {"NotPdf", "NotFound"}]_vars

\* C24: of two create_domain calls for the same name that run concurrently,
\* both started when no metadata record existed, exactly one succeeds and the
\* other fails with AlreadyExists, and the cached index, the persisted index
\* and the metadata of the domain are those of the call that succeeded. (Of
\* two answered calls one of which was not refused, one has succeeded and the
\* other was refused.)
C24_OneCreateWins ==
    \A t, u \in Threads :
        (t # u /\ th[t].op = "create" /\ th[u].op = "create"
           /\ th[t].name = th[u].name
           /\ th[t].pc = "done" /\ th[u].pc = "done"
           /\ th[t].result.kind # "AlreadyExists") =>
            /\ th[t].result.kind = "ok"
            /\ th[u].result.kind = "AlreadyExists"
            /\ instances[th[t].name] = th[t].index
            /\ disk[th[t].name].index.docs = heap[th[t].index]
            /\ disk[th[t].name].meta.exists

\* No request on the domain is in progress.
Idle(d) == \A t \in Threads : th[t].name = d => th[t].pc \in {"idle", "done"}

\* C25: cache/persistence coherence: for every domain with a cache entry,
\* whenever no operation on the domain is in progress, the chunk set of the
\* cached index equals the chunk set of the persisted index, also after an
\* ingest or delete_document call that ended with an error part-way through.
C25_CacheCoherence ==
    \A d \in Domains :
        (instances[d] # 0 /\ Idle(d)) =>
            DOMAIN heap[instances[d]] = DOMAIN disk[d].index.docs

\* C26: ingestion never removes chunks: no step of an ingest_pdfs call takes a
\* chunk identity out of the domain's index, cached or persisted, so the
\* identities after the call are a superset of those before it; re-ingesting a
\* file name whose new version has fewer surviving pages leaves the chunks of
\* the pages that no longer survive in the index and in the chunk count.
C26_IngestKeepsChunks ==
    [][\A t \in Threads : \A d \in Domains :
          (th[t].op = "upload" /\ th[t].name = d /\ th'[t] # th[t]) =>
             /\ DOMAIN Chunks(d) \subseteq DOMAIN Chunks(d)'
             /\ DOMAIN disk[d].index.docs \subseteq DOMAIN disk'[d].index.docs
             /\ (th[t].pc = "ing_write" /\ th'[t].result.kind = "ok") =>
                   /\ disk'[d].meta.doc_count = Cardinality(DOMAIN Chunks(d)')
                   /\ disk'[d].meta.doc_count >= disk[d].meta.doc_count]_vars

\* C26's case: a file indexed with two pages was ingested again in a version
\* of which one page survives, and the chunk of the other page is still in
\* the index and in the chunk count.
C26_Witness ==
    \E t \in Threads :
        /\ th[t].op = "upload" /\ th[t].pc = "done" /\ th[t].result.kind = "ok"
        /\ \E i \in DOMAIN th[t].files :
              LET f == th[t].files[i]
                  d == th[t].name
              IN  /\ Len(FileDocuments(d, f)) = 1
                  /\ Chunks(d)[DocId(d, f.fn, 0)].ver = f.pdf.ver
                  /\ DocId(d, f.fn, 1) \in DOMAIN Chunks(d)
                  /\ Chunks(d)[DocId(d, f.fn, 1)].ver # f.pdf.ver
                  /\ disk[d].meta.doc_count = Cardinality(DOMAIN Chunks(d))
                  /\ DocId(d, f.fn, 1) \in DOMAIN disk[d].index.docs

====
